---------------------------- MODULE Spec2Model ----------------------------
(***************************************************************************)
(* Model of the MachineSet annotation reconciler (package machineset) and  *)
(* of the per-reconcile GuestClusterScope (package scope).                 *)
(*                                                                         *)
(* The reconciler talks to an external object store through Get and Patch. *)
(* One Reconcile invocation is cut at the store calls, where it blocks:    *)
(* ReconcileStart issues the Get, ReconcileGet is the Get's answer and the *)
(* steps up to the issue of the Patch (deletion check, snapshot, decode,   *)
(* derive), ReconcilePatch is the Patch's answer and the return.  External *)
(* writers and the shutdown signal act in between.                         *)
(***************************************************************************)
EXTENDS Integers, Sequences, FiniteSets, TLC

VARIABLES
    store,          \* the external store's copy of the MachineSet
    writes,         \* number of external writes so far (bounded)
    pc,             \* position of the reconciler: "idle", or blocked in
                    \* "getting" (Get in flight) | "patch" (Patch in flight)
    shutdown,       \* "none", or where the reconciler was when the stop
                    \* signal came: "idle" | "getting" | "patch"
    machineSet,     \* the in-memory object of the running invocation
    original,       \* machineSet.DeepCopy() held by client.MergeFrom
    patch,          \* the merge-patch submitted by the invocation
    result,         \* (ctrl.Result, error) of the last finished invocation
    outcome,        \* which return statement the last invocation took
    trace,          \* the steps the current/last invocation performed
    storeAtGet,     \* the store as the invocation's Get saw it
    storeAtPatch,   \* the store right before the invocation's Patch
    storeAfter,     \* the store when the invocation returned
    getResp,        \* what the store answered to the invocation's Get
    patchResp,      \* what the store answered to the invocation's Patch
    settled,        \* a Reconcile ran from Get to a successful Patch with no
                    \* other write in between, and nothing wrote since
    idem,           \* the last invocation ran Get..Patch on a settled object
    prevDerived     \* derived annotation values of the last successful run

VARIABLES
    scopeState,     \* "none" | "open" | "closed": life of the current scope
    params,         \* the GuestClusterScopeParams of the last constructor call
    scope,          \* the *GuestClusterScope the constructor returned
    scopeErr,       \* the error the constructor returned
    sessionCalls,   \* sessionForRegion calls made by the last constructor call
    helperCalls,    \* patch.NewHelper calls made by the last constructor call
    gcStore,        \* the external store's copy of the GuestCluster
    gcWrites,       \* number of external writes to the GuestCluster (bounded)
    closeErr,       \* the error the last Close returned
    gcStoreAtClose, \* the stored GuestCluster right before the last Close
    gcStoreAfter,   \* the stored GuestCluster when the last Close returned
    lastCall        \* the last setter called on the scope, and its argument

VARIABLES
    cpc,            \* codec round trip: "start" | "encoded" | "decoded"
    cHelper,        \* which encoding helper is called
    cArgs,          \* its arguments
    cVersion,       \* the schema version of the Encoder it uses
    cValue,         \* the AWSMachineProviderConfig the helper built
    cRaw,           \* the payload the helper returned
    cDecoded        \* what getproviderConfig made of the payload

cvars == <<cpc, cHelper, cArgs, cVersion, cValue, cRaw, cDecoded>>

svars == <<scopeState, params, scope, scopeErr, sessionCalls, helperCalls,
           gcStore, gcWrites, closeErr, gcStoreAtClose, gcStoreAfter,
           lastCall>>

rvars == <<store, writes, pc, shutdown, machineSet, original, patch, result, outcome,
           trace, storeAtGet, storeAtPatch, storeAfter, getResp, patchResp,
           settled, idem, prevDerived>>

vars == <<rvars, svars, cvars>>

-----------------------------------------------------------------------------
(* Bounds *)

MaxWrites == 2

-----------------------------------------------------------------------------
(* Annotation keys and decimal formatting *)

VCPUKey   == "machine.openshift.io/vCPU"
MemoryKey == "machine.openshift.io/memoryMb"
GPUKey    == "machine.openshift.io/GPU"
OwnerKey  == "example.com/owner"

DerivedKeys == {VCPUKey, MemoryKey, GPUKey}

Digits == <<"0", "1", "2", "3", "4", "5", "6", "7", "8", "9">>

RECURSIVE FormatUint(_)
FormatUint(n) ==
    IF n < 10 THEN Digits[n + 1]
    ELSE FormatUint(n \div 10) \o Digits[(n % 10) + 1]

\* strconv.FormatInt(n, 10)
FormatInt(n) == IF n < 0 THEN "-" \o FormatUint(-n) ELSE FormatUint(n)

EmptyMap == [k \in {} |-> ""]

Put(m, k, v) == [x \in (DOMAIN m) \cup {k} |-> IF x = k THEN v ELSE m[x]]

Remove(m, ks) == [x \in (DOMAIN m) \ ks |-> m[x]]

-----------------------------------------------------------------------------
(* Errors and results *)

NilErr == [nil |-> TRUE, msg |-> ""]

Err(m) == [nil |-> FALSE, msg |-> m]

\* ctrl.Result{} : no requeue, no requeue-after
EmptyResult == [requeue |-> FALSE, requeueAfter |-> 0]


-----------------------------------------------------------------------------
(* Provider-spec payload and codec *)

SupportedVersions == {"v1alpha1", "v1beta1"}

InstanceTypeIds == {"m4.xlarge", "z9.unknown"}

\* a nil slice, and a slice literal
NilSlice == [isNil |-> TRUE, items |-> << >>]

SliceOf(items) == [isNil |-> FALSE, items |-> items]

\* a nil pointer, and a pointer to a value
NilRef == [isNil |-> TRUE, val |-> ""]

RefTo(v) == [isNil |-> FALSE, val |-> v]

NilBool == [isNil |-> TRUE, val |-> FALSE]

\* the zero AWSMachineProviderConfig
ZeroProviderConfig ==
    [AMI               |-> NilSlice,
     CredentialsSecret |-> NilRef,
     InstanceType      |-> "",
     Placement         |-> [Region |-> "", AvailabilityZone |-> ""],
     Subnet            |-> NilSlice,
     Tags              |-> NilSlice,
     SecurityGroups    |-> NilSlice,
     PublicIP          |-> NilBool,
     UserDataSecret    |-> NilRef]

\* the fields that serialization leaves out when empty (nil pointer,
\* empty slice, empty string)
OmittedKeys(v) ==
    {k \in {"ami", "subnet", "tags", "securityGroups"} :
        LET sl == CASE k = "ami" -> v.AMI
                    [] k = "subnet" -> v.Subnet
                    [] k = "tags" -> v.Tags
                    [] OTHER -> v.SecurityGroups
        IN  Len(sl.items) = 0}
    \cup {k \in {"credentialsSecret", "userDataSecret"} :
            IF k = "credentialsSecret" THEN v.CredentialsSecret.isNil
            ELSE v.UserDataSecret.isNil}
    \cup (IF v.PublicIP.isNil THEN {"publicIp"} ELSE {})
    \cup (IF v.InstanceType = "" THEN {"instanceType"} ELSE {})

AllKeys ==
    {"ami", "credentialsSecret", "instanceType", "placement", "subnet", "tags",
     "securityGroups", "publicIp", "userDataSecret"}

\* Encoder.Encode(v, buf): the payload carries the version marker of the
\* encoder's schema and the non-empty fields of v
Encode(v, version) ==
    [apiVersion |-> version,
     wellFormed |-> TRUE,
     has |-> AllKeys \ OmittedKeys(v),
     doc |-> [AMI               |-> v.AMI.items,
              CredentialsSecret |-> v.CredentialsSecret.val,
              InstanceType      |-> v.InstanceType,
              Placement         |-> v.Placement,
              Subnet            |-> v.Subnet.items,
              Tags              |-> v.Tags.items,
              SecurityGroups    |-> v.SecurityGroups.items,
              PublicIP          |-> v.PublicIP.val,
              UserDataSecret    |-> v.UserDataSecret.val]]

\* The raw bytes of spec.template.spec.providerSpec: an embedded version
\* marker followed by a serialized structure.
Payloads ==
    {Encode([ZeroProviderConfig EXCEPT !.InstanceType = t], v) :
        v \in SupportedVersions, t \in InstanceTypeIds}
    \cup {Encode([ZeroProviderConfig EXCEPT !.InstanceType = "m4.xlarge"], "v9"),
          [Encode(ZeroProviderConfig, "v1beta1") EXCEPT !.wellFormed = FALSE]}

\* providerconfigv1.NewCodec()
NewCodec == [err |-> NilErr]

\* the value a well-formed payload unmarshals into: an absent field is left
\* at its zero value
Unmarshal(raw) ==
    [AMI               |-> IF "ami" \in raw.has THEN SliceOf(raw.doc.AMI)
                           ELSE NilSlice,
     CredentialsSecret |-> IF "credentialsSecret" \in raw.has
                           THEN RefTo(raw.doc.CredentialsSecret) ELSE NilRef,
     InstanceType      |-> IF "instanceType" \in raw.has
                           THEN raw.doc.InstanceType ELSE "",
     Placement         |-> IF "placement" \in raw.has THEN raw.doc.Placement
                           ELSE ZeroProviderConfig.Placement,
     Subnet            |-> IF "subnet" \in raw.has THEN SliceOf(raw.doc.Subnet)
                           ELSE NilSlice,
     Tags              |-> IF "tags" \in raw.has THEN SliceOf(raw.doc.Tags)
                           ELSE NilSlice,
     SecurityGroups    |-> IF "securityGroups" \in raw.has
                           THEN SliceOf(raw.doc.SecurityGroups) ELSE NilSlice,
     PublicIP          |-> IF "publicIp" \in raw.has
                           THEN [isNil |-> FALSE, val |-> raw.doc.PublicIP]
                           ELSE NilBool,
     UserDataSecret    |-> IF "userDataSecret" \in raw.has
                           THEN RefTo(raw.doc.UserDataSecret) ELSE NilRef]

\* codec.DecodeProviderSpec: the schema is selected by the embedded marker
DecodeProviderSpec(raw) ==
    IF raw.apiVersion \notin SupportedVersions
    THEN [err |-> Err("no kind registered for version " \o raw.apiVersion),
          config |-> ZeroProviderConfig]
    ELSE IF ~raw.wellFormed
    THEN [err |-> Err("malformed payload"), config |-> ZeroProviderConfig]
    ELSE [err |-> NilErr, config |-> Unmarshal(raw)]

\* Variant: the value is returned without having been decoded into
getproviderConfig_NotDecoded(ms) ==
    [err |-> DecodeProviderSpec(ms.providerSpec).err, config |-> ZeroProviderConfig]

getproviderConfig(ms) ==
    IF ~NewCodec.err.nil
    THEN [err |-> Err("failed to create codec: " \o NewCodec.err.msg),
          config |-> ZeroProviderConfig]
    ELSE LET d == DecodeProviderSpec(ms.providerSpec)
         IN  IF ~d.err.nil
             THEN [err |-> Err("failed to decode machineSet provider config: "
                               \o d.err.msg),
                   config |-> ZeroProviderConfig]
             ELSE [err |-> NilErr, config |-> d.config]

-----------------------------------------------------------------------------
(* Instance capability table *)

ZeroInstanceType == [VCPU |-> 0, MemoryMb |-> 0, GPU |-> 0]

InstanceTypes ==
    [t \in {"m4.xlarge"} |-> [VCPU |-> 4, MemoryMb |-> 16384, GPU |-> 0]]

\* InstanceTypes[key]: a missing key yields the zero value
LookupInstanceType(key) ==
    IF key \in DOMAIN InstanceTypes THEN InstanceTypes[key] ELSE ZeroInstanceType

-----------------------------------------------------------------------------
(* The external store *)

NoObject ==
    [exists |-> FALSE, deletionTimestamp |-> FALSE, resourceVersion |-> 0,
     annotations |-> EmptyMap, providerSpec |-> CHOOSE p \in Payloads : TRUE,
     replicas |-> 0]

\* The object a successful Get decodes into: an absent annotations field
\* unmarshals to a nil map.
Fetched(s) ==
    [deletionTimestamp |-> s.deletionTimestamp,
     resourceVersion   |-> s.resourceVersion,
     annotationsNil    |-> (DOMAIN s.annotations = {}),
     annotations       |-> s.annotations,
     providerSpec      |-> s.providerSpec,
     replicas          |-> s.replicas]

\* Client.Get(ctx, key, obj)
StoreGet(s, fault) ==
    IF fault THEN [err |-> Err("store unavailable"), notFound |-> FALSE]
    ELSE IF ~s.exists THEN [err |-> Err("not found"), notFound |-> TRUE]
    ELSE [err |-> NilErr, notFound |-> FALSE]

\* context.Background(): never cancelled, whatever the stop signal does
Background == [cancelOnStop |-> FALSE]

\* <-ctx.Done() as a call made with ctx observes it
Done(ctx, stop) == ctx.cancelOnStop /\ stop # "none"

\* r.Client.Get(ctx, ...): a call whose ctx is done ends with the ctx error
ClientGet(ctx, stop, s, fault) ==
    IF Done(ctx, stop)
    THEN [err |-> Err("context canceled"), notFound |-> FALSE]
    ELSE StoreGet(s, fault)

NoPatch ==
    [precondition |-> [has |-> FALSE, resourceVersion |-> 0],
     annSet |-> EmptyMap, annDel |-> {},
     replicasSet |-> FALSE, replicas |-> 0,
     deletionSet |-> FALSE, deletionTimestamp |-> FALSE,
     specSet |-> FALSE, providerSpec |-> NoObject.providerSpec]

\* The JSON merge-patch between two serialized objects: only what differs.
\* nil and empty annotation maps serialize alike (omitempty).
MergeDiff(orig, mod) ==
    [precondition |-> [has |-> FALSE, resourceVersion |-> 0],
     annSet |-> [k \in {x \in DOMAIN mod.annotations :
                          \/ x \notin DOMAIN orig.annotations
                          \/ orig.annotations[x] # mod.annotations[x]}
                 |-> mod.annotations[k]],
     annDel |-> (DOMAIN orig.annotations) \ (DOMAIN mod.annotations),
     replicasSet |-> (orig.replicas # mod.replicas),
     replicas |-> IF orig.replicas # mod.replicas THEN mod.replicas ELSE 0,
     deletionSet |-> (orig.deletionTimestamp # mod.deletionTimestamp),
     deletionTimestamp |-> IF orig.deletionTimestamp # mod.deletionTimestamp
                           THEN mod.deletionTimestamp ELSE FALSE,
     specSet |-> (orig.providerSpec # mod.providerSpec),
     providerSpec |-> IF orig.providerSpec # mod.providerSpec
                      THEN mod.providerSpec ELSE NoObject.providerSpec]

\* client.MergeFromWithOptimisticLock: the diff plus the resourceVersion of
\* the original as a precondition (not what Reconcile uses)
MergeFromWithOptimisticLock(orig, mod) ==
    [MergeDiff(orig, mod) EXCEPT
        !.precondition = [has |-> TRUE, resourceVersion |-> orig.resourceVersion]]

\* Variant: the patch carries every annotation of the modified object
MergeFrom_FullOverwrite(orig, mod) ==
    [MergeDiff(orig, mod) EXCEPT !.annSet = mod.annotations]

\* client.MergeFrom(orig).Data(mod): the bare diff, no precondition
MergeFrom(orig, mod) == MergeDiff(orig, mod)

EmptyDelta(p) ==
    /\ DOMAIN p.annSet = {}
    /\ p.annDel = {}
    /\ ~p.replicasSet
    /\ ~p.deletionSet
    /\ ~p.specSet

\* The stored object after the delta is merged into it
ApplyDelta(s, p) ==
    LET kept == Remove(s.annotations, p.annDel)
        anns == [k \in (DOMAIN kept) \cup (DOMAIN p.annSet) |->
                    IF k \in DOMAIN p.annSet THEN p.annSet[k] ELSE kept[k]]
        merged == [s EXCEPT
                     !.annotations = anns,
                     !.replicas = IF p.replicasSet THEN p.replicas ELSE @,
                     !.deletionTimestamp =
                         IF p.deletionSet THEN p.deletionTimestamp ELSE @,
                     !.providerSpec = IF p.specSet THEN p.providerSpec ELSE @]
    IN  IF merged = s THEN s
        ELSE [merged EXCEPT !.resourceVersion = s.resourceVersion + 1]

\* Client.Patch(ctx, obj, patch): the error, and the store afterwards
StorePatch(s, p, fault) ==
    IF fault THEN [err |-> Err("store unavailable"), store |-> s]
    ELSE IF ~s.exists THEN [err |-> Err("not found"), store |-> s]
    ELSE IF p.precondition.has
            /\ p.precondition.resourceVersion # s.resourceVersion
    THEN [err |-> Err("conflict"), store |-> s]
    ELSE [err |-> NilErr, store |-> ApplyDelta(s, p)]

\* r.Client.Patch(ctx, ...): a call whose ctx is done ends with the ctx error
ClientPatch(ctx, stop, s, p, fault) ==
    IF Done(ctx, stop)
    THEN [err |-> Err("context canceled"), store |-> s]
    ELSE StorePatch(s, p, fault)

-----------------------------------------------------------------------------
(* MachineSetReconciler.Reconcile *)

\* machineSet := &machinev1.MachineSet{}
ZeroMachineSet ==
    [deletionTimestamp |-> FALSE, resourceVersion |-> 0,
     annotationsNil |-> TRUE, annotations |-> EmptyMap,
     providerSpec |-> NoObject.providerSpec, replicas |-> 0]

\* Variant: not-found is returned like any other Get error
GetErrorResult_NotFoundIsError(g) == g.err

\* The error Reconcile returns when Get fails: not-found is not an error
GetErrorResult(g) == IF g.notFound THEN NilErr ELSE g.err

\* Variant: the deletion check is missing
IsDeleting_Never(ms) == FALSE

\* !machineSet.DeletionTimestamp.IsZero()
IsDeleting(ms) == ms.deletionTimestamp

\* Variant: the decode failure is swallowed
DecodeErrorResult_Swallow(err) == NilErr

\* The error Reconcile returns when getproviderConfig fails
DecodeErrorResult(err) == Err("failed to get providerConfig: " \o err.msg)

\* if machineSet.Annotations == nil { machineSet.Annotations = make(...) }
EnsureAnnotations(ms) == [ms EXCEPT !.annotationsNil = FALSE]

\* Variant: the annotation map is replaced by one holding the three keys
WriteAnnotations_ResetMap(ms, instanceType) ==
    [ms EXCEPT !.annotations =
        Put(Put(Put(EmptyMap, VCPUKey, FormatInt(instanceType.VCPU)),
                MemoryKey, FormatInt(instanceType.VCPU)),
            GPUKey, FormatInt(instanceType.VCPU))]

\* Variant: the annotations are only written for a known instance type
WriteAnnotations_SkipZero(ms, instanceType) ==
    IF instanceType.VCPU = 0 THEN ms
    ELSE [ms EXCEPT !.annotations =
            Put(Put(Put(@, VCPUKey, FormatInt(instanceType.VCPU)),
                    MemoryKey, FormatInt(instanceType.VCPU)),
                GPUKey, FormatInt(instanceType.VCPU))]

\* The three annotation writes of Reconcile, as the code performs them
WriteAnnotations(ms, instanceType) ==
    [ms EXCEPT !.annotations =
        Put(Put(Put(@, VCPUKey, FormatInt(instanceType.VCPU)),
                MemoryKey, FormatInt(instanceType.VCPU)),
            GPUKey, FormatInt(instanceType.VCPU))]

\* Variant: the Patch failure is swallowed
PatchErrorResult_Swallow(err) == NilErr

\* The error Reconcile returns when Patch fails
PatchErrorResult(err) == Err("failed to patch machineSet: " \o err.msg)

\* return ctrl.Result{}, err
Return(kind, err, ms, orig, steps) ==
    /\ pc' = "idle"
    /\ outcome' = kind
    /\ result' = [result |-> EmptyResult, err |-> err]
    /\ machineSet' = ms
    /\ original' = orig
    /\ trace' = steps
    /\ patch' = NoPatch
    /\ idem' = FALSE
    /\ storeAfter' = store
    /\ UNCHANGED <<store, writes, settled>>

\* Variant: the snapshot is taken after the annotations are written
Derive_SnapshotLast(ms, instanceType) ==
    LET written == WriteAnnotations(EnsureAnnotations(ms), instanceType)
    IN  [original |-> written, machineSet |-> written]

\* originalMachineSetToPatch := client.MergeFrom(machineSet.DeepCopy()), and
\* then the writes to machineSet.Annotations
Derive(ms, instanceType) ==
    [original   |-> ms,
     machineSet |-> WriteAnnotations(EnsureAnnotations(ms), instanceType)]

\* Entry of Reconcile up to the issue of its Get: the invocation blocks in
\* the store.  The scheduler starts no invocation once it was told to stop.
ReconcileStart ==
    /\ pc = "idle"
    /\ shutdown = "none"
    /\ pc' = "getting"
    /\ trace' = <<"get">>
    /\ machineSet' = ZeroMachineSet
    /\ prevDerived' = IF outcome = "patched"
                      THEN [k \in DerivedKeys |-> machineSet.annotations[k]]
                      ELSE prevDerived
    /\ UNCHANGED <<store, writes, shutdown, original, patch, result, outcome,
                   storeAtGet, storeAtPatch, storeAfter, getResp, patchResp,
                   settled, idem>>
    /\ UNCHANGED <<svars, cvars>>

\* The answer to the Get, then deletion check, snapshot, decode, derive and
\* the issue of the Patch.
\* fault: the store fails the Get with an error other than not-found.
ReconcileGet(fault) ==
    /\ pc = "getting"
    /\ UNCHANGED <<svars, cvars>>
    /\ storeAtGet' = store
    /\ storeAtPatch' = store
    /\ patchResp' = NilErr
    /\ UNCHANGED <<shutdown, prevDerived>>
    /\ LET ctx == Background
           g == ClientGet(ctx, shutdown, store, fault)
           ms == Fetched(store)
           pcfg == getproviderConfig(ms)
           instanceType == LookupInstanceType(pcfg.config.InstanceType)
           derived == Derive(ms, instanceType)
       IN  /\ getResp' = g
           /\ IF ~g.err.nil
              THEN Return(IF g.notFound THEN "notfound" ELSE "geterr",
                          GetErrorResult(g), ZeroMachineSet, ZeroMachineSet,
                          <<"get">>)
              ELSE IF IsDeleting(ms)
              THEN Return("deleting", NilErr, ms, ZeroMachineSet,
                          <<"get", "deletioncheck">>)
              ELSE IF ~pcfg.err.nil
              THEN Return("decodeerr", DecodeErrorResult(pcfg.err), ms, ms,
                          <<"get", "deletioncheck", "snapshot", "decode">>)
              ELSE /\ pc' = "patch"
                   /\ original' = derived.original
                   /\ machineSet' = derived.machineSet
                   /\ trace' = <<"get", "deletioncheck", "snapshot", "decode",
                                 "derive", "patch">>
                   /\ UNCHANGED <<store, writes, settled, patch, result,
                                  outcome, idem, storeAfter>>

\* The answer to the Patch and the return of Reconcile.
\* fault: the store fails the Patch with an error of its own.
ReconcilePatch(fault) ==
    /\ pc = "patch"
    /\ UNCHANGED <<svars, cvars>>
    /\ LET ctx == Background
           data == MergeFrom(original, machineSet)
           r == ClientPatch(ctx, shutdown, store, data, fault)
       IN  /\ patch' = data
           /\ patchResp' = r.err
           /\ storeAtPatch' = store
           /\ store' = r.store
           /\ storeAfter' = r.store
           /\ pc' = "idle"
           /\ IF ~r.err.nil
              THEN /\ outcome' = "patcherr"
                   /\ result' = [result |-> EmptyResult,
                                 err |-> PatchErrorResult(r.err)]
                   /\ idem' = FALSE
                   /\ UNCHANGED settled
              ELSE /\ outcome' = "patched"
                   /\ result' = [result |-> EmptyResult, err |-> NilErr]
                   /\ idem' = settled
                   /\ settled' = (store = storeAtGet)
    /\ UNCHANGED <<writes, shutdown, trace, machineSet, original, storeAtGet,
                   getResp, prevDerived>>

\* mgr.Start(stop): the stop signal reaches the scheduler.  It is recorded
\* together with the call the running invocation is blocked in, if any.
Shutdown ==
    /\ shutdown = "none"
    /\ shutdown' = pc
    /\ UNCHANGED <<store, writes, pc, machineSet, original, patch, result,
                   outcome, trace, storeAtGet, storeAtPatch, storeAfter,
                   getResp, patchResp, settled, idem, prevDerived>>
    /\ UNCHANGED <<svars, cvars>>

-----------------------------------------------------------------------------
(* Other writers of the stored object *)

ExternalAnnotations == {<<OwnerKey, "ops">>, <<VCPUKey, "9">>}

Written(s) ==
    /\ store' = [s EXCEPT !.resourceVersion = store.resourceVersion + 1]
    /\ writes' = writes + 1
    /\ settled' = FALSE
    /\ UNCHANGED <<pc, shutdown, machineSet, original, patch, result, outcome,
                   trace,
                   storeAtGet, storeAtPatch, storeAfter, getResp, patchResp,
                   idem, prevDerived>>
    /\ UNCHANGED <<svars, cvars>>

ExternalScale ==
    /\ store.exists
    /\ writes < MaxWrites
    /\ Written([store EXCEPT !.replicas = 3 - @])

ExternalAnnotate(k, v) ==
    /\ store.exists
    /\ writes < MaxWrites
    /\ Put(store.annotations, k, v) # store.annotations
    /\ Written([store EXCEPT !.annotations = Put(@, k, v)])

ExternalSetProviderSpec(p) ==
    /\ store.exists
    /\ writes < MaxWrites
    /\ p # store.providerSpec
    /\ Written([store EXCEPT !.providerSpec = p])

\* deletion-timestamp is set once and never cleared
ExternalMarkDeleted ==
    /\ store.exists
    /\ writes < MaxWrites
    /\ ~store.deletionTimestamp
    /\ Written([store EXCEPT !.deletionTimestamp = TRUE])

ExternalRemove ==
    /\ store.exists
    /\ writes < MaxWrites
    /\ store' = NoObject
    /\ writes' = writes + 1
    /\ settled' = FALSE
    /\ UNCHANGED <<pc, shutdown, machineSet, original, patch, result, outcome,
                   trace,
                   storeAtGet, storeAtPatch, storeAfter, getResp, patchResp,
                   idem, prevDerived>>
    /\ UNCHANGED <<svars, cvars>>

-----------------------------------------------------------------------------
(* Specification of the reconciler *)

InitAnnotations ==
    {EmptyMap,
     Put(EmptyMap, OwnerKey, "dev"),
     Put(Put(Put(Put(EmptyMap, OwnerKey, "dev"), VCPUKey, "4"),
             MemoryKey, "4"), GPUKey, "4")}

InitStores ==
    {NoObject} \cup
    {[exists |-> TRUE, deletionTimestamp |-> d, resourceVersion |-> 1,
      annotations |-> a, providerSpec |-> p, replicas |-> 1] :
        d \in BOOLEAN, a \in InitAnnotations, p \in Payloads}

ReconcilerInit(stores) ==
    /\ store \in stores
    /\ writes = 0
    /\ pc = "idle"
    /\ shutdown = "none"
    /\ machineSet = ZeroMachineSet
    /\ original = ZeroMachineSet
    /\ patch = NoPatch
    /\ result = [result |-> EmptyResult, err |-> NilErr]
    /\ outcome = "none"
    /\ trace = << >>
    /\ storeAtGet = store
    /\ storeAtPatch = store
    /\ storeAfter = store
    /\ getResp = [err |-> NilErr, notFound |-> FALSE]
    /\ patchResp = NilErr
    /\ settled = FALSE
    /\ idem = FALSE
    /\ prevDerived = EmptyMap

Next ==
    \/ ReconcileStart
    \/ \E fault \in BOOLEAN : ReconcileGet(fault)
    \/ \E fault \in BOOLEAN : ReconcilePatch(fault)
    \/ ExternalScale
    \/ \E kv \in ExternalAnnotations : ExternalAnnotate(kv[1], kv[2])
    \/ \E p \in Payloads : ExternalSetProviderSpec(p)
    \/ ExternalMarkDeleted
    \/ ExternalRemove
    \/ Shutdown

-----------------------------------------------------------------------------
(* The GuestCluster object (unstructured) and its store *)

KnownRegions == {"us-east-1"}

\* The content of an unstructured GuestCluster that the scope reads or the
\* reconcile changes: spec (absent, not a map, or a map), spec.region
\* (absent, not a string, or a string), a status field, and the version.
GuestClusters ==
    {[specKind |-> "absent", regionKind |-> "absent", region |-> "",
      ready |-> FALSE, resourceVersion |-> 1],
     [specKind |-> "scalar", regionKind |-> "absent", region |-> "",
      ready |-> FALSE, resourceVersion |-> 1],
     [specKind |-> "map", regionKind |-> "absent", region |-> "",
      ready |-> FALSE, resourceVersion |-> 1],
     [specKind |-> "map", regionKind |-> "number", region |-> "",
      ready |-> FALSE, resourceVersion |-> 1]}
    \cup {[specKind |-> "map", regionKind |-> "string", region |-> r,
           ready |-> FALSE, resourceVersion |-> 1] :
            r \in {"us-east-1", "mars-1", ""}}

\* unstructured.NestedString(obj, "spec", "region")
NestedString(obj) ==
    IF obj.specKind = "absent"
    THEN [val |-> "", found |-> FALSE, err |-> NilErr]
    ELSE IF obj.specKind # "map"
    THEN [val |-> "", found |-> FALSE,
          err |-> Err(".spec.region accessor error: spec is not a map")]
    ELSE IF obj.regionKind = "absent"
    THEN [val |-> "", found |-> FALSE, err |-> NilErr]
    ELSE IF obj.regionKind # "string"
    THEN [val |-> "", found |-> FALSE,
          err |-> Err(".spec.region accessor error: expected string")]
    ELSE [val |-> obj.region, found |-> TRUE, err |-> NilErr]

\* fmt.Errorf("...%w", err) and errors.Errorf("...%v", err) of a nil error
ErrText(err) == IF err.nil THEN "%!w(<nil>)" ELSE err.msg

\* sessionForRegion(region, endpoints)
\* credentials: whether a usable credential source exists at call time
sessionForRegion(region, credentials) ==
    IF region \notin KnownRegions
    THEN [session |-> [isNil |-> TRUE, region |-> ""],
          err |-> Err("unknown region " \o region)]
    ELSE IF ~credentials
    THEN [session |-> [isNil |-> TRUE, region |-> ""],
          err |-> Err("no credentials")]
    ELSE [session |-> [isNil |-> FALSE, region |-> region], err |-> NilErr]

\* patch.NewHelper(obj, client): the helper holds a deep copy of obj
\* fault: the helper cannot be built for the object
NewHelper(obj, fault) ==
    IF fault
    THEN [helper |-> [isNil |-> TRUE, before |-> obj],
          err |-> Err("cannot convert object")]
    ELSE [helper |-> [isNil |-> FALSE, before |-> obj], err |-> NilErr]

-----------------------------------------------------------------------------
(* GuestClusterScope *)

ZeroGuestCluster ==
    [specKind |-> "absent", regionKind |-> "absent", region |-> "",
     ready |-> FALSE, resourceVersion |-> 0]

NilSession == [isNil |-> TRUE, region |-> ""]

NilHelper == [isNil |-> TRUE, before |-> ZeroGuestCluster]

\* a nil *GuestClusterScope
NilScope ==
    [isNil |-> TRUE, Cluster |-> [isNil |-> TRUE],
     GuestCluster |-> ZeroGuestCluster, patchHelper |-> NilHelper,
     session |-> NilSession, controllerName |-> ""]

NoParams ==
    [ClusterNil |-> TRUE, GuestClusterNil |-> TRUE,
     GuestCluster |-> ZeroGuestCluster, ControllerName |-> ""]

\* Variant: only an accessor error stops the constructor
RegionMissing_IgnoreNotFound(r) == ~r.err.nil

\* err != nil || !found
RegionMissing(r) == ~r.err.nil \/ ~r.found

\* Variant: the session is left out of the scope
BuildScope_NoSession(p, session, helper) ==
    [isNil |-> FALSE,
     Cluster |-> [isNil |-> p.ClusterNil],
     GuestCluster |-> p.GuestCluster,
     patchHelper |-> helper,
     session |-> NilSession,
     controllerName |-> p.ControllerName]

\* return &GuestClusterScope{...}, nil
BuildScope(p, session, helper) ==
    [isNil |-> FALSE,
     Cluster |-> [isNil |-> p.ClusterNil],
     GuestCluster |-> p.GuestCluster,
     patchHelper |-> helper,
     session |-> session,
     controllerName |-> p.ControllerName]

\* return nil, err
ScopeFails(p, err, nSession, nHelper) ==
    /\ scopeState' = "none"
    /\ scope' = NilScope
    /\ scopeErr' = err
    /\ sessionCalls' = nSession
    /\ helperCalls' = nHelper

\* NewGuestClusterScope(params).  The caller passes the GuestCluster it has
\* fetched from the store, or nil.
NewGuestClusterScope(clusterNil, guestNil, credentials, helperFault) ==
    /\ scopeState \in {"none", "closed"}
    /\ UNCHANGED <<rvars, cvars>>
    /\ UNCHANGED <<gcStore, gcWrites, closeErr, gcStoreAtClose, gcStoreAfter,
                   lastCall>>
    /\ LET p == [ClusterNil |-> clusterNil, GuestClusterNil |-> guestNil,
                 GuestCluster |-> IF guestNil THEN ZeroGuestCluster ELSE gcStore,
                 ControllerName |-> "guestcluster"]
           r == NestedString(p.GuestCluster)
           s == sessionForRegion(r.val, credentials)
           h == NewHelper(p.GuestCluster, helperFault)
       IN  /\ params' = p
           /\ IF p.ClusterNil
              THEN ScopeFails(p, Err("failed to generate new scope from nil Cluster"),
                              0, 0)
              ELSE IF p.GuestClusterNil
              THEN ScopeFails(p,
                      Err("failed to generate new scope from nil GuestCluster"),
                      0, 0)
              ELSE IF RegionMissing(r)
              THEN ScopeFails(p, Err("error getting region: " \o ErrText(r.err)),
                              0, 0)
              ELSE IF ~s.err.nil
              THEN ScopeFails(p, Err("failed to create aws session: " \o s.err.msg),
                              1, 0)
              ELSE IF ~h.err.nil
              THEN ScopeFails(p, Err("failed to init patch helper: " \o h.err.msg),
                              1, 1)
              ELSE /\ scopeState' = "open"
                   /\ scope' = BuildScope(p, s.session, h.helper)
                   /\ scopeErr' = NilErr
                   /\ sessionCalls' = 1
                   /\ helperCalls' = 1

\* The reconcile that owns the scope changes the live target in memory.
MutateTarget ==
    /\ scopeState = "open"
    /\ scope' = [scope EXCEPT !.GuestCluster.ready = ~@]
    /\ UNCHANGED <<rvars, cvars>>
    /\ UNCHANGED <<scopeState, params, scopeErr, sessionCalls, helperCalls,
                   gcStore, gcWrites, closeErr, gcStoreAtClose, gcStoreAfter,
                   lastCall>>

\* s.PatchObject()
PatchObject == [err |-> NilErr, store |-> gcStore]

\* s.Close()
Close ==
    /\ scopeState = "open"
    /\ scopeState' = "closed"
    /\ closeErr' = PatchObject.err
    /\ gcStoreAtClose' = gcStore
    /\ gcStore' = PatchObject.store
    /\ gcStoreAfter' = PatchObject.store
    /\ UNCHANGED <<rvars, cvars>>
    /\ UNCHANGED <<params, scope, scopeErr, sessionCalls, helperCalls, gcWrites,
                   lastCall>>

\* the nil a stub accessor returns
Nil == "nil"

\* arguments handed to the setters: nil and a value
SetterArgs == {Nil, "value"}

NoCall == [name |-> "none", arg |-> Nil]

\* func (s *GuestClusterScope) Subnets() infrav1.Subnets
Subnets(s) == Nil

\* func (s *GuestClusterScope) SecurityGroups()
SecurityGroups(s) == Nil

\* func (s *GuestClusterScope) AdditionalTags() infrav1.Tags
AdditionalTags(s) == Nil

\* func (s *GuestClusterScope) Bastion() *infrav1.Bastion
Bastion(s) == Nil

\* func (r *GuestClusterObject) GetConditions() clusterv1.Conditions
GetConditions(obj) == Nil

\* func (s *GuestClusterScope) Session() awsclient.ConfigProvider
Session(s) == s.session

\* func (s *GuestClusterScope) SetSubnets(subnets): the scope afterwards
SetSubnets(s, subnets) == s

\* func (s *GuestClusterScope) SetFailureDomain(id, spec): the scope afterwards
SetFailureDomain(s, id, spec) == s

\* Variant: the instance is recorded in the status of the held GuestCluster
SetBastionInstance_Recorded(s, instance) ==
    [s EXCEPT !.GuestCluster.ready = (instance # Nil)]

\* func (s *GuestClusterScope) SetBastionInstance(instance): the scope
\* afterwards
SetBastionInstance(s, instance) == s

\* func (r *GuestClusterObject) SetConditions(conditions): the object
\* afterwards
SetConditions(obj, conditions) == obj

\* A setter call on a scope the constructor returned
Called(name, arg, after) ==
    /\ scopeState # "none"
    /\ scope' = after
    /\ lastCall' = [name |-> name, arg |-> arg]
    /\ UNCHANGED <<rvars, cvars>>
    /\ UNCHANGED <<scopeState, params, scopeErr, sessionCalls, helperCalls,
                   gcStore, gcWrites, closeErr, gcStoreAtClose, gcStoreAfter>>

CallSetSubnets(subnets) ==
    Called("SetSubnets", subnets, SetSubnets(scope, subnets))

CallSetFailureDomain(id, spec) ==
    Called("SetFailureDomain", id, SetFailureDomain(scope, id, spec))

CallSetBastionInstance(instance) ==
    Called("SetBastionInstance", instance, SetBastionInstance(scope, instance))

CallSetConditions(conditions) ==
    Called("SetConditions", conditions,
           [scope EXCEPT !.GuestCluster = SetConditions(@, conditions)])

\* Another writer changes the stored GuestCluster.
ExternalWriteGuestCluster(g) ==
    /\ gcWrites < MaxWrites
    /\ [g EXCEPT !.resourceVersion = 0] # [gcStore EXCEPT !.resourceVersion = 0]
    /\ gcStore' = [g EXCEPT !.resourceVersion = gcStore.resourceVersion + 1]
    /\ gcWrites' = gcWrites + 1
    /\ UNCHANGED <<rvars, cvars>>
    /\ UNCHANGED <<scopeState, params, scope, scopeErr, sessionCalls, helperCalls,
                   closeErr, gcStoreAtClose, gcStoreAfter, lastCall>>

-----------------------------------------------------------------------------
(* The provider-config encoding helpers *)

HelperNames ==
    {"TestingMachineProviderConfig", "MasterMachineProviderConfig",
     "WorkerMachineSetProviderConfig"}

SecretNames == {"aws-creds", "aws-creds-2"}

UserDataNames == {"master-user-data", "worker-user-data"}

ClusterIDs == {"c1", "c2"}

ImageFilters ==
    <<[Name |-> "tag:image_stage", Values |-> <<"base">>],
      [Name |-> "tag:operating_system", Values |-> <<"rhel">>],
      [Name |-> "tag:ready", Values |-> <<"yes">>]>>

\* the fields the three helpers set alike
CommonMachinePc(awsCredentialsSecretName, clusterID) ==
    [ZeroProviderConfig EXCEPT
        !.AMI = SliceOf(ImageFilters),
        !.CredentialsSecret = RefTo(awsCredentialsSecretName),
        !.InstanceType = "m4.xlarge",
        !.Placement = [Region |-> "us-east-1", AvailabilityZone |-> "us-east-1a"],
        !.Subnet = SliceOf(<<[Name |-> "tag:Name",
                              Values |-> <<clusterID \o "-worker-*">>]>>),
        !.SecurityGroups = SliceOf(<<[Name |-> "tag:Name",
                                      Values |-> <<clusterID \o "-*">>]>>),
        !.PublicIP = [isNil |-> FALSE, val |-> TRUE]]

\* machinePc of TestingMachineProviderConfig
TestingMachinePc(awsCredentialsSecretName, clusterID) ==
    [CommonMachinePc(awsCredentialsSecretName, clusterID) EXCEPT
        !.Tags = SliceOf(<<[Name |-> "openshift-node-group-config",
                            Value |-> "node-config-master"],
                           [Name |-> "host-type", Value |-> "master"],
                           [Name |-> "sub-host-type", Value |-> "default"]>>)]

\* machinePc of MasterMachineProviderConfig
MasterMachinePc(awsCredentialsSecretName, masterUserDataSecretName, clusterID) ==
    [CommonMachinePc(awsCredentialsSecretName, clusterID) EXCEPT
        !.UserDataSecret = RefTo(masterUserDataSecretName)]

\* machinePc of WorkerMachineSetProviderConfig
WorkerMachinePc(awsCredentialsSecretName, workerUserDataSecretName, clusterID) ==
    [CommonMachinePc(awsCredentialsSecretName, clusterID) EXCEPT
        !.UserDataSecret = RefTo(workerUserDataSecretName)]

MachinePc(helper, args) ==
    CASE helper = "TestingMachineProviderConfig" ->
            TestingMachinePc(args.secret, args.clusterID)
      [] helper = "MasterMachineProviderConfig" ->
            MasterMachinePc(args.secret, args.userData, args.clusterID)
      [] OTHER ->
            WorkerMachinePc(args.secret, args.userData, args.clusterID)

\* The helper builds machinePc, encodes it and returns
\* ProviderConfig{Value: &runtime.RawExtension{Raw: buf.Bytes()}}.
EncodeByHelper ==
    /\ cpc = "start"
    /\ cpc' = "encoded"
    /\ cValue' = MachinePc(cHelper, cArgs)
    /\ cRaw' = Encode(MachinePc(cHelper, cArgs), cVersion)
    /\ UNCHANGED <<cHelper, cArgs, cVersion, cDecoded>>
    /\ UNCHANGED <<rvars, svars>>

\* The reconciler decodes the payload found in a MachineSet's providerSpec.
DecodeByReconciler ==
    /\ cpc = "encoded"
    /\ cpc' = "decoded"
    /\ cDecoded' = getproviderConfig([ZeroMachineSet EXCEPT !.providerSpec = cRaw])
    /\ UNCHANGED <<cHelper, cArgs, cVersion, cValue, cRaw>>
    /\ UNCHANGED <<rvars, svars>>

CodecInit(helpers, versions) ==
    /\ cpc = "start"
    /\ cHelper \in helpers
    /\ cArgs \in [secret : SecretNames, userData : UserDataNames,
                  clusterID : ClusterIDs]
    /\ cVersion \in versions
    /\ cValue = ZeroProviderConfig
    /\ cRaw = Encode(ZeroProviderConfig, cVersion)
    /\ cDecoded = [err |-> NilErr, config |-> ZeroProviderConfig]

CodecNext == EncodeByHelper \/ DecodeByReconciler

-----------------------------------------------------------------------------
(* Specifications *)

ScopeInit(objects) ==
    /\ gcStore \in objects
    /\ gcWrites = 0
    /\ scopeState = "none"
    /\ params = NoParams
    /\ scope = NilScope
    /\ scopeErr = NilErr
    /\ sessionCalls = 0
    /\ helperCalls = 0
    /\ closeErr = NilErr
    /\ gcStoreAtClose = gcStore
    /\ gcStoreAfter = gcStore
    /\ lastCall = NoCall

\* the codec round trip at rest: one fixed input, never stepped
CodecIdle ==
    /\ CodecInit({"TestingMachineProviderConfig"}, {"v1alpha1"})
    /\ cArgs = [secret |-> "aws-creds", userData |-> "master-user-data",
                clusterID |-> "c1"]

Init == ReconcilerInit(InitStores) /\ ScopeInit({ZeroGuestCluster}) /\ CodecIdle

Spec == Init /\ [][Next]_vars

ScopeNext ==
    \/ \E clusterNil, guestNil, credentials, helperFault \in BOOLEAN :
          NewGuestClusterScope(clusterNil, guestNil, credentials, helperFault)
    \/ MutateTarget
    \/ Close
    \/ \E subnets \in SetterArgs : CallSetSubnets(subnets)
    \/ \E id \in SetterArgs : CallSetFailureDomain(id, "spec")
    \/ \E instance \in SetterArgs : CallSetBastionInstance(instance)
    \/ \E conditions \in SetterArgs : CallSetConditions(conditions)
    \/ \E g \in GuestClusters, ready \in BOOLEAN :
          ExternalWriteGuestCluster([g EXCEPT !.ready = ready])

InitOfScope ==
    ReconcilerInit({NoObject}) /\ ScopeInit(GuestClusters) /\ CodecIdle

ScopeSpec == InitOfScope /\ [][ScopeNext]_vars

\* The scheduler and the store under the retry policy: no other writer, no
\* stop signal.  An invocation that returned an error is run again (and the
\* object's creation triggers a first one); the store does not fail forever.
InitOfRetry ==
    ReconcilerInit(InitStores) /\ ScopeInit({ZeroGuestCluster}) /\ CodecIdle

Requeued == outcome = "none" \/ ~result.err.nil

RetryNext ==
    \/ ReconcileStart
    \/ \E fault \in BOOLEAN : ReconcileGet(fault)
    \/ \E fault \in BOOLEAN : ReconcilePatch(fault)

RetrySpec ==
    /\ InitOfRetry
    /\ [][RetryNext]_vars
    /\ WF_vars(Requeued /\ ReconcileStart)
    /\ SF_vars(ReconcileGet(FALSE))
    /\ SF_vars(ReconcilePatch(FALSE))

InitOfCodec ==
    /\ ReconcilerInit({NoObject})
    /\ ScopeInit({ZeroGuestCluster})
    /\ CodecInit(HelperNames, SupportedVersions)

CodecSpec == InitOfCodec /\ [][CodecNext]_vars

-----------------------------------------------------------------------------
(* Properties of Reconcile *)

PatchCalls == Cardinality({i \in DOMAIN trace : trace[i] = "patch"})

GetCalls == Cardinality({i \in DOMAIN trace : trace[i] = "get"})

\* an invocation has returned
Returned == pc = "idle" /\ trace # << >>

\* the invocation's Get returned an object
GotObject == trace # << >> /\ pc # "getting" /\ getResp.err.nil

NoRequeueNoError == [result |-> [requeue |-> FALSE, requeueAfter |-> 0],
                     err |-> [nil |-> TRUE, msg |-> ""]]

\* the capability descriptor of the instance type the fetched payload names
FetchedInstanceType ==
    LookupInstanceType(DecodeProviderSpec(storeAtGet.providerSpec).config.InstanceType)

\* C1: when Get answers not-found, Reconcile returns no-requeue and a nil
\* error, issues no Patch, and leaves the store as it was.
C1_NotFoundIsDone ==
    (Returned /\ getResp.notFound) =>
        /\ result = NoRequeueNoError
        /\ PatchCalls = 0
        /\ storeAfter = storeAtGet

C1_Witness == Returned /\ getResp.notFound /\ ~storeAtGet.exists

\* C2: a fetched MachineSet whose deletion-timestamp is set is never decoded,
\* mutated or patched, and the invocation returns no-requeue, nil error.
C2_DeletingIsTerminal ==
    (GotObject /\ storeAtGet.deletionTimestamp) =>
        /\ pc = "idle"
        /\ PatchCalls = 0
        /\ \A i \in DOMAIN trace : trace[i] \notin {"decode", "derive", "snapshot"}
        /\ machineSet = Fetched(storeAtGet)
        /\ storeAfter = storeAtGet
        /\ result = NoRequeueNoError

C2_Witness == GotObject /\ storeAtGet.deletionTimestamp /\ Returned

\* C3: after a successful Reconcile the vCPU, memoryMb and GPU annotations are
\* the decimal strings of the descriptor's vCPU, memoryMiB and gpuCount.
C3_AnnotationsFromDescriptor ==
    (Returned /\ PatchCalls = 1 /\ result.err.nil) =>
        /\ machineSet.annotations[VCPUKey] = FormatInt(FetchedInstanceType.VCPU)
        /\ machineSet.annotations[MemoryKey] = FormatInt(FetchedInstanceType.MemoryMb)
        /\ machineSet.annotations[GPUKey] = FormatInt(FetchedInstanceType.GPU)

\* C4: a Reconcile of an object that was reconciled successfully and not
\* written since computes the same three values, submits an empty delta and
\* leaves the stored object identical.
C4_Idempotent ==
    (Returned /\ PatchCalls = 1 /\ result.err.nil /\ idem) =>
        /\ [k \in DerivedKeys |-> machineSet.annotations[k]] = prevDerived
        /\ EmptyDelta(patch)
        /\ storeAtPatch = storeAtGet
        /\ storeAfter = storeAtGet

C4_Witness == Returned /\ PatchCalls = 1 /\ result.err.nil /\ idem

\* another writer advanced the stored version between Get and Patch
VersionAdvanced ==
    /\ Returned
    /\ PatchCalls = 1
    /\ storeAtPatch.exists
    /\ storeAtPatch.resourceVersion # original.resourceVersion

\* the derived keys whose value the invocation changed in memory
ChangedKeys ==
    {k \in DerivedKeys :
        \/ k \notin DOMAIN original.annotations
        \/ original.annotations[k] # machineSet.annotations[k]}

\* C5: when another writer advances the stored version between
\* Get and Patch, the Patch is rejected with a conflict, the store keeps the
\* other writer's state and Reconcile returns an error.
C5_ConflictRejected ==
    VersionAdvanced =>
        /\ ~result.err.nil
        /\ storeAfter = storeAtPatch

\* What client.MergeFrom does instead: no version precondition; when another
\* writer advances the stored version between Get and Patch and the store
\* does not fail on its own, the Patch is accepted, Reconcile returns a nil
\* error, the derived annotations this invocation changed relative to the
\* object it fetched are merged onto the other writer's state, and everything
\* else of that state is kept.
C5_MergedOverOtherWriter ==
    (VersionAdvanced /\ patchResp.msg # "store unavailable") =>
        /\ ~patch.precondition.has
        /\ patchResp.nil
        /\ result = NoRequeueNoError
        /\ \A k \in ChangedKeys :
              /\ k \in DOMAIN storeAfter.annotations
              /\ storeAfter.annotations[k] = machineSet.annotations[k]
        /\ \A k \in (DOMAIN storeAtPatch.annotations) \ ChangedKeys :
              /\ k \in DOMAIN storeAfter.annotations
              /\ storeAfter.annotations[k] = storeAtPatch.annotations[k]
        /\ DOMAIN storeAfter.annotations =
              (DOMAIN storeAtPatch.annotations) \cup ChangedKeys
        /\ storeAfter.replicas = storeAtPatch.replicas
        /\ storeAfter.providerSpec = storeAtPatch.providerSpec
        /\ storeAfter.deletionTimestamp = storeAtPatch.deletionTimestamp

C5_Witness ==
    /\ VersionAdvanced
    /\ patchResp.nil
    /\ storeAtPatch.replicas # storeAtGet.replicas

\* C6: Reconcile returns a nil error only after not-found, a deleting object
\* or a successful Patch; a Get error other than not-found and a Patch error
\* each yield a non-nil error.
C6_NoErrorSwallowed ==
    Returned =>
        /\ result.err.nil =>
              \/ getResp.notFound
              \/ getResp.err.nil /\ storeAtGet.deletionTimestamp
              \/ PatchCalls = 1 /\ patchResp.nil
        /\ (~getResp.err.nil /\ ~getResp.notFound) =>
              ~result.err.nil /\ ~result.result.requeue
        /\ (PatchCalls = 1 /\ ~patchResp.nil) => ~result.err.nil

C6_Witness == Returned /\ PatchCalls = 1 /\ ~patchResp.nil /\ ~result.err.nil

\* the fetched object is live and its payload does not decode
DecodeFails ==
    /\ GotObject
    /\ ~storeAtGet.deletionTimestamp
    /\ ~DecodeProviderSpec(storeAtGet.providerSpec).err.nil

\* C7: when the payload does not decode, Reconcile returns an error that
\* wraps the decode failure, issues no Patch and leaves the store as it was.
C7_DecodeFailureRequeues ==
    DecodeFails =>
        /\ pc = "idle"
        /\ ~result.err.nil
        /\ result.err.msg =
              "failed to get providerConfig: failed to decode machineSet provider config: "
              \o DecodeProviderSpec(storeAtGet.providerSpec).err.msg
        /\ PatchCalls = 0
        /\ storeAfter = storeAtGet

C7_Witness == DecodeFails /\ Returned /\ storeAtGet.providerSpec.apiVersion = "v9"

\* the fetched object is live, decodes, and names a type the table lacks
UnknownInstanceType ==
    /\ GotObject
    /\ ~storeAtGet.deletionTimestamp
    /\ DecodeProviderSpec(storeAtGet.providerSpec).err.nil
    /\ DecodeProviderSpec(storeAtGet.providerSpec).config.InstanceType
          \notin DOMAIN InstanceTypes

\* C8: an instance type absent from the table yields the zero descriptor and
\* no failure: Reconcile goes on to Patch and writes "0" for the three keys
\* (in the store too, when no other writer came between Get and Patch).
C8_UnknownTypeWritesZero ==
    UnknownInstanceType =>
        /\ FetchedInstanceType = [VCPU |-> 0, MemoryMb |-> 0, GPU |-> 0]
        /\ pc = "patch" \/ PatchCalls = 1
        /\ \A k \in DerivedKeys :
              k \in DOMAIN machineSet.annotations /\ machineSet.annotations[k] = "0"
        /\ (Returned /\ patchResp.nil) => result = NoRequeueNoError
        /\ (Returned /\ patchResp.nil /\ storeAtPatch = storeAtGet) =>
              \A k \in DerivedKeys :
                  k \in DOMAIN storeAfter.annotations
                  /\ storeAfter.annotations[k] = "0"

C8_Witness ==
    /\ UnknownInstanceType
    /\ Returned
    /\ PatchCalls = 1
    /\ patchResp.nil
    /\ storeAtPatch = storeAtGet
    /\ VCPUKey \notin DOMAIN storeAtGet.annotations

-----------------------------------------------------------------------------
(* Properties of GuestClusterScope *)

\* the last constructor call was given a nil Cluster, a nil GuestCluster, or
\* a GuestCluster whose spec.region is absent or not a string
InvalidParams ==
    \/ params.ClusterNil
    \/ params.GuestClusterNil
    \/ params.GuestCluster.specKind # "map"
    \/ params.GuestCluster.regionKind # "string"

\* C9: NewGuestClusterScope given a nil Cluster, a nil GuestCluster or a
\* target without a string spec.region returns an error and no scope, and
\* neither builds a session nor takes the patch snapshot.
C9_InvalidParamsFail ==
    (params # NoParams /\ InvalidParams) =>
        /\ scope.isNil
        /\ scope = NilScope
        /\ scopeState = "none"
        /\ ~scopeErr.nil
        /\ sessionCalls = 0
        /\ helperCalls = 0

C9_Witness ==
    /\ params # NoParams
    /\ ~params.ClusterNil
    /\ ~params.GuestClusterNil
    /\ params.GuestCluster.specKind = "map"
    /\ params.GuestCluster.regionKind = "absent"
    /\ ~scopeErr.nil

\* C10: after a Close that returns nil, for a scope whose live target differs
\* from the snapshot taken at construction, the stored object reflects the
\* in-memory change.
C10_ClosePersists ==
    (/\ scopeState = "closed"
     /\ closeErr.nil
     /\ scope.GuestCluster # scope.patchHelper.before) =>
        gcStoreAfter.ready = scope.GuestCluster.ready

\* the stored version advanced between the scope's snapshot and its Close
AdvancedSinceSnapshot ==
    /\ scopeState = "closed"
    /\ gcStoreAtClose.resourceVersion # scope.patchHelper.before.resourceVersion

\* C11: when the stored object's resource version has advanced since the
\* snapshot was taken, Close returns a conflict error, not nil.
C11_CloseConflicts == AdvancedSinceSnapshot => ~closeErr.nil

-----------------------------------------------------------------------------
(* Properties of the provider-config codec *)

DeletingAtPatch ==
    /\ Returned
    /\ PatchCalls = 1
    /\ storeAtPatch.exists
    /\ storeAtPatch.deletionTimestamp

\* C13: the reconciler never modifies a stored object whose
\* deletion-timestamp is set; when it is set after the Get and before the
\* Patch, the Patch does not change the stored object.
C13_NoWriteWhenDeleting ==
    DeletingAtPatch => storeAfter = storeAtPatch

\* C14: the patch holds only the derived annotation keys whose value changed
\* relative to the snapshot, so what another writer changed in any other
\* field between the Get and the Patch is still in the store after the Patch.
C14_MinimalDelta ==
    (Returned /\ PatchCalls = 1) =>
        /\ DOMAIN patch.annSet = ChangedKeys
        /\ \A k \in ChangedKeys : patch.annSet[k] = machineSet.annotations[k]
        /\ patch.annDel = {}
        /\ ~patch.replicasSet /\ ~patch.deletionSet /\ ~patch.specSet
        /\ storeAfter.exists = storeAtPatch.exists
        /\ storeAfter.replicas = storeAtPatch.replicas
        /\ storeAfter.providerSpec = storeAtPatch.providerSpec
        /\ storeAfter.deletionTimestamp = storeAtPatch.deletionTimestamp
        /\ \A k \in (DOMAIN storeAtPatch.annotations) \ DerivedKeys :
              /\ k \in DOMAIN storeAfter.annotations
              /\ storeAfter.annotations[k] = storeAtPatch.annotations[k]

C14_Witness ==
    /\ Returned
    /\ PatchCalls = 1
    /\ patchResp.nil
    /\ ChangedKeys # {}
    /\ storeAtPatch.replicas # storeAtGet.replicas
    /\ OwnerKey \in DOMAIN storeAtPatch.annotations
    /\ OwnerKey \notin DOMAIN storeAtGet.annotations
    /\ storeAfter # storeAtPatch

\* the invocation went through its writes to machineSet.Annotations
Derived == pc = "patch" \/ (Returned /\ PatchCalls = 1)

\* C15: a Reconcile changes nothing on the object except the three derived
\* annotation keys: annotations under other keys, metadata and spec are the
\* same after as before; a nil annotation map is allocated and then holds
\* exactly the three derived keys.  With no other writer, the same is true
\* of the stored object after a successful Patch.
C15_Frame ==
    Derived =>
        /\ original = Fetched(storeAtGet)
        /\ machineSet.deletionTimestamp = original.deletionTimestamp
        /\ machineSet.resourceVersion = original.resourceVersion
        /\ machineSet.providerSpec = original.providerSpec
        /\ machineSet.replicas = original.replicas
        /\ ~machineSet.annotationsNil
        /\ DOMAIN machineSet.annotations =
              (DOMAIN original.annotations) \cup DerivedKeys
        /\ \A k \in (DOMAIN original.annotations) \ DerivedKeys :
              machineSet.annotations[k] = original.annotations[k]
        /\ original.annotationsNil =>
              DOMAIN machineSet.annotations = DerivedKeys
        /\ (Returned /\ patchResp.nil /\ storeAtPatch = storeAtGet) =>
              /\ storeAfter.annotations = machineSet.annotations
              /\ [storeAfter EXCEPT
                    !.annotations = storeAtGet.annotations,
                    !.resourceVersion = storeAtGet.resourceVersion]
                    = storeAtGet

C15_Witness ==
    /\ Returned
    /\ PatchCalls = 1
    /\ patchResp.nil
    /\ storeAtPatch = storeAtGet
    /\ original.annotationsNil
    /\ DOMAIN storeAfter.annotations = DerivedKeys

\* the longest sequence of steps one invocation performs
FullTrace == <<"get", "deletioncheck", "snapshot", "decode", "derive", "patch">>

\* C17: a Reconcile is abortable where it blocks: when the stop signal comes
\* while the invocation is blocked in Get or in Patch, that call is cancelled
\* and the invocation ends without the store's answer.
C17_Abortable ==
    /\ (shutdown = "getting" /\ pc # "getting") =>
          /\ getResp.err.msg = "context canceled"
          /\ Returned
          /\ PatchCalls = 0
    /\ (shutdown = "patch" /\ pc = "idle") =>
          /\ patchResp.msg = "context canceled"
          /\ storeAfter = storeAtPatch

\* C19: within one invocation the steps are sequential and single-shot: one
\* Get, the deletion check, the snapshot (before any in-memory write), decode,
\* derive, at most one Patch; no Patch before decode succeeded; none after
\* not-found, a fetch error, a deleting object or a decode failure; exactly
\* one after a successful decode, also when the delta is empty.
C19_Sequential ==
    /\ \E n \in 0..Len(FullTrace) : trace = SubSeq(FullTrace, 1, n)
    /\ trace # << >> => GetCalls = 1
    /\ PatchCalls <= 1
    /\ PatchCalls = 1 =>
          /\ getResp.err.nil
          /\ ~storeAtGet.deletionTimestamp
          /\ getproviderConfig(Fetched(storeAtGet)).err.nil
          /\ original = Fetched(storeAtGet)
    /\ Returned =>
          IF ~getResp.err.nil THEN trace = <<"get">>
          ELSE IF storeAtGet.deletionTimestamp
          THEN trace = <<"get", "deletioncheck">>
          ELSE IF ~getproviderConfig(Fetched(storeAtGet)).err.nil
          THEN trace = <<"get", "deletioncheck", "snapshot", "decode">>
          ELSE /\ trace = FullTrace
               /\ patch = MergeFrom(original, machineSet)
               /\ outcome \in {"patched", "patcherr"}

C19_Witness ==
    /\ Returned
    /\ trace = FullTrace
    /\ EmptyDelta(patch)
    /\ patchResp.nil
    /\ storeAfter = storeAtPatch

\* C16: NewGuestClusterScope takes the patch snapshot last, after validation,
\* region resolution and session creation succeeded; on any failure, session
\* creation included (its error is wrapped), it returns a nil scope; no scope
\* holds a snapshot without a session or a session without a snapshot.
C16_SnapshotLast ==
    /\ helperCalls = 1 =>
          /\ sessionCalls = 1
          /\ ~InvalidParams
          /\ params.GuestCluster.region \in KnownRegions
          /\ scopeErr.nil \/ scopeErr =
                Err("failed to init patch helper: cannot convert object")
    /\ (sessionCalls = 1 /\ helperCalls = 0) =>
          /\ ~InvalidParams
          /\ scopeErr \in
                {Err("failed to create aws session: " \o m) :
                    m \in {"no credentials",
                           "unknown region " \o params.GuestCluster.region}}
    /\ (params # NoParams /\ ~InvalidParams
           /\ params.GuestCluster.region \notin KnownRegions) =>
          /\ sessionCalls = 1
          /\ helperCalls = 0
    /\ ~scopeErr.nil => (scope = NilScope /\ scopeState = "none")
    /\ scope.session.isNil <=> scope.patchHelper.isNil
    /\ ~scope.isNil =>
          /\ ~scope.session.isNil
          /\ ~scope.patchHelper.isNil
          /\ sessionCalls = 1
          /\ helperCalls = 1
          /\ scope.patchHelper.before = params.GuestCluster

C16_Witness ==
    /\ sessionCalls = 1
    /\ helperCalls = 0
    /\ scope = NilScope
    /\ scopeErr = Err("failed to create aws session: no credentials")

Reconcilable ==
    /\ store.exists
    /\ ~store.deletionTimestamp
    /\ getproviderConfig(Fetched(store)).err.nil

\* the stored object carries the annotations a Reconcile of it writes
StoreCarriesDerived ==
    /\ Reconcilable
    /\ store.annotations =
          Derive(Fetched(store),
                 LookupInstanceType(
                    getproviderConfig(Fetched(store)).config.InstanceType)
                ).machineSet.annotations

\* C18: when invocations that returned an error are run again, the store's
\* Get and Patch eventually succeed, the payload decodes and nobody else
\* deletes or writes the object, eventually a Reconcile returns a nil error
\* with the stored object carrying the derived annotations, and from then on
\* reconciles leave the store unchanged.
C18_Converges ==
    /\ Reconcilable ~>
          (/\ Returned
           /\ outcome = "patched"
           /\ result = NoRequeueNoError
           /\ DerivedKeys \subseteq DOMAIN store.annotations
           /\ StoreCarriesDerived)
    /\ [][StoreCarriesDerived => store' = store]_vars

C18_Witness ==
    /\ Returned
    /\ outcome = "patched"
    /\ result = NoRequeueNoError
    /\ StoreCarriesDerived
    /\ store.resourceVersion = 2
    /\ EmptyDelta(patch)
    /\ storeAfter = storeAtGet
====
